---------------------------- MODULE Spec2Model ----------------------------
(***************************************************************************)
(* Model of the shape auto-labelling tools of iosLidarSonify:              *)
(*   shape_training/auto_label_shapes.py  (colour masks, label image,      *)
(*                                         batch run and report)           *)
(*   shape_training/split_dataset.py      (pairing of grayscale images     *)
(*                                         with label masks)               *)
(* File names are sequences of one-character strings, so that sorting,     *)
(* suffix tests, splitext and str.replace are computed character by        *)
(* character as Python computes them.                                      *)
(***************************************************************************)
EXTENDS Integers, Sequences, FiniteSets, TLC

VARIABLES
  \* ---- batch run (auto_label_shapes.main) ----
  pc,          \* position of main: "start","dirs","loop","done","aborted"
  listing,     \* os.listdir(in_dir), in the order the filesystem gives it
  decodable,   \* the names cv2.imread decodes (returns an image, not None)
  writable,    \* the output subdirectories cv2.imwrite can write into
  queue,       \* names of sorted(os.listdir) the for loop has not visited yet
  report,      \* the list `report`
  disk,        \* artifacts in out_dir: set of [path, src], one per path
  persisted,   \* <<name, kind>>: imwrite of `kind` for input `name` succeeded
  failed,      \* <<name, kind>>: imwrite of `kind` for input `name` returned False
  priorReport, \* report.json as it was before the run
  reportFile,  \* report.json now
  reportWrites,\* number of times the run has written report.json
  \* ---- one pixel through the threshold stage of color_mask ----
  ppc,         \* "init" / "done"
  px,          \* the pixel of hsv: <<hue, saturation, value>>
  thr,         \* the value of the thresholded mask m at the pixel, per colour
  \* ---- the area filter of color_mask on one component ----
  apc,         \* "init" / "done"
  ah, aw,      \* m.shape[:2]
  area,        \* stats[i, cv2.CC_STAT_AREA] of a component
  kept,        \* whether out[cc == i] = 255 was executed
  \* ---- the compositing lines of label_image ----
  cpc,         \* "init" / "done"
  cmasks,      \* mask_r, mask_g, mask_b
  clab,        \* lab
  \* ---- label_image on one image ----
  lpc,         \* "init" / "done"
  hsv,         \* the image after cvtColor: [h, w, px]
  thrMasks,    \* per colour: m after inRange / bitwise_or
  openMasks,   \* per colour: m after MORPH_OPEN
  masks,       \* per colour: what color_mask returns
  lab,         \* what label_image returns
  \* ---- split_dataset.main ----
  spc,         \* "start", "pairing", "paired", "exit", "shuffled", "split"
  bases,       \* base names of the inputs the labelling run wrote artifacts for
  images,      \* sorted(images_dir.glob("*.png")), file names
  smasks,      \* the sorted mask file names
  mask_by_stem,\* the dict mask_by_stem
  todo,        \* images the pairing loop has not visited yet
  pairs,       \* the list `pairs`
  args,        \* args.val and args.test, each a ratio <<numerator, denominator>>
  splits       \* the dict `splits`

batchVars == <<pc, listing, decodable, writable, queue, report, disk, persisted, failed,
               priorReport, reportFile, reportWrites>>
pixelVars == <<ppc, px, thr>>
areaVars  == <<apc, ah, aw, area, kept>>
compVars  == <<cpc, cmasks, clab>>
labelVars == <<lpc, hsv, thrMasks, openMasks, masks, lab>>
splitVars == <<spc, bases, images, smasks, mask_by_stem, todo, pairs, args, splits>>

vars == <<batchVars, pixelVars, areaVars, compVars, labelVars, splitVars>>

---------------------------------------------------------------------------
(* Each specification below runs one part of the program; the state of the
   other parts rests at these values. *)

BatchIdle ==
  /\ pc = "idle" /\ listing = <<>> /\ decodable = {} /\ writable = {}
  /\ queue = <<>> /\ report = <<>> /\ disk = {} /\ persisted = {} /\ failed = {}
  /\ priorReport = [exists |-> FALSE, entries |-> <<>>, valid |-> FALSE]
  /\ reportFile = [exists |-> FALSE, entries |-> <<>>, valid |-> FALSE]
  /\ reportWrites = 0

PixelIdle == ppc = "idle" /\ px = <<0, 0, 0>> /\ thr = [c \in {"red", "green", "blue"} |-> 0]

AreaIdle == apc = "idle" /\ ah = 1 /\ aw = 1 /\ area = 1 /\ kept = FALSE

NoMasks == [c \in {"red", "green", "blue"} |-> <<>>]

CompIdle == cpc = "idle" /\ cmasks = NoMasks /\ clab = <<>>

LabelIdle ==
  /\ lpc = "idle" /\ hsv = [h |-> 0, w |-> 0, px |-> <<>>]
  /\ thrMasks = NoMasks /\ openMasks = NoMasks /\ masks = NoMasks /\ lab = <<>>

SplitIdle ==
  /\ spc = "idle" /\ bases = {} /\ images = <<>> /\ smasks = <<>>
  /\ mask_by_stem = <<>> /\ todo = <<>> /\ pairs = <<>>
  /\ args = [val |-> <<0, 1>>, test |-> <<0, 1>>]
  /\ splits = [train |-> <<>>, val |-> <<>>, test |-> <<>>]

---------------------------------------------------------------------------
(* Strings *)

\* Code points of the characters the model uses (Python compares str by
\* code point).
Ord(c) ==
  CASE c = "." -> 46
    [] c = "B" -> 66 [] c = "C" -> 67 [] c = "E" -> 69 [] c = "G" -> 71
    [] c = "H" -> 72 [] c = "I" -> 73 [] c = "J" -> 74 [] c = "N" -> 78
    [] c = "P" -> 80
    [] c = "_" -> 95
    [] c = "a" -> 97 [] c = "b" -> 98 [] c = "c" -> 99 [] c = "e" -> 101
    [] c = "g" -> 103 [] c = "h" -> 104 [] c = "i" -> 105 [] c = "j" -> 106
    [] c = "n" -> 110 [] c = "p" -> 112 [] c = "r" -> 114 [] c = "s" -> 115
    [] c = "t" -> 116 [] c = "x" -> 120 [] c = "y" -> 121

\* Python's  a < b  on str: the first differing character decides, and a
\* proper prefix is smaller.
RECURSIVE StrLess(_, _)
StrLess(a, b) ==
  IF b = <<>> THEN FALSE
  ELSE IF a = <<>> THEN TRUE
  ELSE IF Head(a) = Head(b) THEN StrLess(Tail(a), Tail(b))
  ELSE Ord(Head(a)) < Ord(Head(b))

\* str.endswith(suffix)
EndsWith(s, suf) ==
  /\ Len(suf) <= Len(s)
  /\ SubSeq(s, Len(s) - Len(suf) + 1, Len(s)) = suf

\* str.startswith(prefix)
StartsWith(s, pre) ==
  /\ Len(pre) <= Len(s)
  /\ SubSeq(s, 1, Len(pre)) = pre

\* sorted(names): selection of the least remaining name, repeated.
RECURSIVE SortedOf(_)
SortedOf(S) ==
  IF S = {} THEN <<>>
  ELSE LET m == CHOOSE x \in S : \A y \in S \ {x} : StrLess(x, y)
       IN  <<m>> \o SortedOf(S \ {m})

Range(s) == {s[i] : i \in 1..Len(s)}

\* Mutant of Sorted: the listing is used in the order the filesystem gave it.
Sorted_unsorted(s) == s

\* sorted(os.listdir(in_dir)): the names of a directory are distinct.
Sorted(s) == SortedOf(Range(s))

\* os.path.splitext(name)[0] for a name without directory separators: cut at
\* the last dot unless only dots precede it.
LastDot(s) ==
  LET D == {i \in 1..Len(s) : s[i] = "."}
  IN  IF D = {} THEN 0 ELSE CHOOSE i \in D : \A j \in D : j <= i

SplitExtBase(s) ==
  LET d == LastDot(s)
  IN  IF d > 0 /\ \E k \in 1..(d - 1) : s[k] # "."
      THEN SubSeq(s, 1, d - 1)
      ELSE s

---------------------------------------------------------------------------
(* Batch run: auto_label_shapes.main *)

\* The extension allow-list `exts`.
exts == { <<".","j","p","g">>, <<".","j","p","e","g">>, <<".","p","n","g">>,
          <<".","J","P","G">>, <<".","J","P","E","G">>, <<".","P","N","G">>,
          <<".","h","e","i","c">>, <<".","H","E","I","C">> }

\* name.endswith(exts)
Allowed(name) == \E e \in exts : EndsWith(name, e)

\* Output file names: base + fixed suffix, in a fixed subdirectory.
MaskName(base)    == base \o <<"_","s","h","a","p","e",".","p","n","g">>
OverlayName(base) == base \o <<"_","o","v","e","r","l","a","y",".","j","p","g">>
GrayName(base)    == base \o <<"_","g","r","a","y",".","p","n","g">>

mask_path(name) == [dir |-> "masks_shape", file |-> MaskName(SplitExtBase(name))]
ov_path(name)   == [dir |-> "overlays",    file |-> OverlayName(SplitExtBase(name))]
gray_path(name) == [dir |-> "grayscale",   file |-> GrayName(SplitExtBase(name))]

Kinds == {"mask", "overlay", "gray"}

PathOf(name, kind) ==
  CASE kind = "mask"    -> mask_path(name)
    [] kind = "overlay" -> ov_path(name)
    [] kind = "gray"    -> gray_path(name)

\* The report entries main appends (area_frac is a function of the pixels,
\* which the batch model does not carry).
ReadFailEntry(name) ==
  [path |-> name, status |-> "read_fail"]

OkEntry(name) ==
  [path |-> name, status |-> "ok",
   mask |-> mask_path(name), overlay |-> ov_path(name), gray |-> gray_path(name)]

OutDirs == {"masks_shape", "overlays", "grayscale"}

\* What cv2.imwrite returns: True when the file was written, False when it
\* could not be (here: a subdirectory that exists, so that makedirs passes,
\* but cannot be written into).
ImWriteOk(w, name, kind) == PathOf(name, kind).dir \in w

\* cv2.imwrite(path, img): a successful write replaces the file at path.
ImWrite(d, w, name, kind) ==
  IF ImWriteOk(w, name, kind)
  THEN {f \in d : f.path # PathOf(name, kind)}
         \cup {[path |-> PathOf(name, kind), src |-> name]}
  ELSE d

\* Names a test directory may hold.
NameUniverse ==
  { <<"a",".","j","p","g">>, <<"a",".","p","n","g">>, <<"b",".","p","n","g">>,
    <<"B",".","P","N","G">>, <<"c",".","t","x","t">> }

MaxFiles == 3

Perms(S) ==
  {s \in [1..Cardinality(S) -> S] : \A i, j \in 1..Cardinality(S) : s[i] = s[j] => i = j}

\* report.json: whether it exists, the entries its text holds, and whether
\* the text is a complete JSON document.
NoReport    == [exists |-> FALSE, entries |-> <<>>, valid |-> FALSE]
StaleReport == [exists |-> TRUE,
                entries |-> <<[path |-> <<"x">>, status |-> "read_fail"]>>,
                valid |-> TRUE]

\* What json.dump(report, f) leaves when it returns.
FullReport(rep) == [exists |-> TRUE, entries |-> rep, valid |-> TRUE]

\* What open(..., "w") leaves (k = 0), and what is left when the with block
\* is left by an exception after k entries were written.
PartialReport(rep, k) == [exists |-> TRUE, entries |-> SubSeq(rep, 1, k), valid |-> FALSE]

\* Positions inside the for loop: the loop head, before each of the three
\* imwrite calls, and before report.append of the ok entry.
LoopPcs == {"loop", "mask", "overlay", "gray", "append"}

InitBatch ==
  /\ pc = "start"
  /\ \E D \in SUBSET NameUniverse :
       /\ Cardinality(D) <= MaxFiles
       /\ listing \in Perms(D)
       /\ decodable \in SUBSET {n \in D : Allowed(n)}
  /\ writable \in SUBSET OutDirs
  /\ queue = <<>>
  /\ report = <<>>
  /\ disk = {}
  /\ persisted = {}
  /\ failed = {}
  /\ priorReport \in {NoReport, StaleReport}
  /\ reportFile = priorReport
  /\ reportWrites = 0
  /\ PixelIdle /\ AreaIdle /\ CompIdle /\ LabelIdle /\ SplitIdle

\* Mutant of AppendReadFail: the failed file is skipped without an entry.
AppendReadFail_skipped(rep, name) == rep

\* report.append({"path":path, "status":"read_fail"}); continue
AppendReadFail(rep, name) == Append(rep, ReadFailEntry(name))

\* os.makedirs(..., exist_ok=True) for the three subdirectories: an OSError
\* propagates out of main.
MakeDirs ==
  /\ pc = "start"
  /\ \E ok \in BOOLEAN : pc' = IF ok THEN "dirs" ELSE "aborted"
  /\ UNCHANGED <<listing, decodable, writable, queue, report, disk, persisted, failed,
                 priorReport, reportFile, reportWrites>>
  /\ UNCHANGED <<pixelVars, areaVars, compVars, labelVars, splitVars>>

\* report = []; sorted(os.listdir(in_dir)): an OSError propagates out of main.
ListDir ==
  /\ pc = "dirs"
  /\ \E ok \in BOOLEAN :
       IF ok THEN pc' = "loop" /\ queue' = Sorted(listing)
             ELSE pc' = "aborted" /\ queue' = queue
  /\ UNCHANGED <<listing, decodable, writable, report, disk, persisted, failed,
                 priorReport, reportFile, reportWrites>>
  /\ UNCHANGED <<pixelVars, areaVars, compVars, labelVars, splitVars>>

\* The loop head up to the first imwrite: a name off the allow-list is
\* skipped, a file imread cannot decode gets its read_fail entry, and for a
\* decoded file the three output paths are built.
NextFile ==
  /\ pc = "loop"
  /\ queue # <<>>
  /\ LET name == Head(queue) IN
       IF ~Allowed(name)
       THEN queue' = Tail(queue) /\ pc' = "loop" /\ report' = report
       ELSE IF name \notin decodable
       THEN /\ report' = AppendReadFail(report, name)
            /\ queue' = Tail(queue)
            /\ pc' = "loop"
       ELSE queue' = queue /\ pc' = "mask" /\ report' = report
  /\ UNCHANGED <<listing, decodable, writable, disk, persisted, failed,
                 priorReport, reportFile, reportWrites>>
  /\ UNCHANGED <<pixelVars, areaVars, compVars, labelVars, splitVars>>

\* cv2.imwrite(path, ...) for one artifact of the current file; main ignores
\* what the call returns.
WriteArtifact(kind, next) ==
  /\ disk' = ImWrite(disk, writable, Head(queue), kind)
  /\ IF ImWriteOk(writable, Head(queue), kind)
     THEN persisted' = persisted \cup {<<Head(queue), kind>>} /\ failed' = failed
     ELSE failed' = failed \cup {<<Head(queue), kind>>} /\ persisted' = persisted
  /\ pc' = next
  /\ UNCHANGED <<listing, decodable, writable, queue, report,
                 priorReport, reportFile, reportWrites>>
  /\ UNCHANGED <<pixelVars, areaVars, compVars, labelVars, splitVars>>

WriteMask    == pc = "mask" /\ WriteArtifact("mask", "overlay")

WriteOverlay == pc = "overlay" /\ WriteArtifact("overlay", "gray")

WriteGray    == pc = "gray" /\ WriteArtifact("gray", "append")

\* report.append({"path":path, "status":"ok", ...}), the end of the iteration.
AppendOk ==
  /\ pc = "append"
  /\ report' = Append(report, OkEntry(Head(queue)))
  /\ queue' = Tail(queue)
  /\ pc' = "loop"
  /\ UNCHANGED <<listing, decodable, writable, disk, persisted, failed,
                 priorReport, reportFile, reportWrites>>
  /\ UNCHANGED <<pixelVars, areaVars, compVars, labelVars, splitVars>>

\* An exception raised inside the loop or by open (KeyboardInterrupt,
\* MemoryError, OSError, ...): main has no try/except, so it leaves main at
\* once, between any two of the calls of an iteration.  What was written
\* stays on disk.
Interrupt ==
  /\ pc \in LoopPcs
  /\ pc' = "aborted"
  /\ UNCHANGED <<listing, decodable, writable, queue, report, disk, persisted, failed,
                 priorReport, reportFile, reportWrites>>
  /\ UNCHANGED <<pixelVars, areaVars, compVars, labelVars, splitVars>>

\* Mutant of OpenReport: the report is opened without waiting for the loop
\* to reach the end of the names.
OpenReport_early ==
  /\ pc = "loop"
  /\ reportFile' = PartialReport(report, 0)
  /\ reportWrites' = reportWrites + 1
  /\ pc' = "opened"
  /\ UNCHANGED <<listing, decodable, writable, queue, report, disk, persisted, failed,
                 priorReport>>
  /\ UNCHANGED <<pixelVars, areaVars, compVars, labelVars, splitVars>>

\* After the loop: open(report.json, "w") creates or truncates the file.
OpenReport ==
  /\ pc = "loop"
  /\ queue = <<>>
  /\ reportFile' = PartialReport(report, 0)
  /\ reportWrites' = reportWrites + 1
  /\ pc' = "opened"
  /\ UNCHANGED <<listing, decodable, writable, queue, report, disk, persisted, failed,
                 priorReport>>
  /\ UNCHANGED <<pixelVars, areaVars, compVars, labelVars, splitVars>>

\* json.dump(report, f, indent=2) and the end of the with block.
DumpReport ==
  /\ pc = "opened"
  /\ reportFile' = FullReport(report)
  /\ pc' = "done"
  /\ UNCHANGED <<listing, decodable, writable, queue, report, disk, persisted, failed,
                 priorReport, reportWrites>>
  /\ UNCHANGED <<pixelVars, areaVars, compVars, labelVars, splitVars>>

\* An exception inside the with block (KeyboardInterrupt, OSError from the
\* write): the file is closed with the text written so far: none, some or
\* all of the entries without the end of the document, or, when json.dump
\* had made its last write, the complete document.
AbortDump ==
  /\ pc = "opened"
  /\ \/ \E k \in 0..Len(report) : reportFile' = PartialReport(report, k)
     \/ reportFile' = FullReport(report)
  /\ pc' = "aborted"
  /\ UNCHANGED <<listing, decodable, writable, queue, report, disk, persisted, failed,
                 priorReport, reportWrites>>
  /\ UNCHANGED <<pixelVars, areaVars, compVars, labelVars, splitVars>>

NextBatch ==
  \/ MakeDirs \/ ListDir
  \/ NextFile \/ WriteMask \/ WriteOverlay \/ WriteGray \/ AppendOk
  \/ Interrupt
  \/ OpenReport \/ DumpReport \/ AbortDump

SpecBatch == InitBatch /\ [][NextBatch]_vars

---------------------------------------------------------------------------
(* Colour masks: auto_label_shapes.color_mask *)

\* HSV thresholds, <<hue, saturation, value>>.
R1_L == <<0,   80, 70>>
R1_H == <<10,  255, 255>>
R2_L == <<170, 80, 70>>
R2_H == <<180, 255, 255>>
G1_L == <<40,  70, 60>>
G1_H == <<85,  255, 255>>
G2_L == <<35,  70, 60>>
G2_H == <<55,  255, 255>>
B_L  == <<95,  80, 60>>
B_H  == <<135, 255, 255>>

LABELS == [red |-> 1, green |-> 2, blue |-> 3]

Colors == {"red", "green", "blue"}

\* cv2.inRange at one pixel: 255 when every channel lies in [lo, hi], else 0.
InRange(p, lo, hi) ==
  IF \A i \in 1..3 : lo[i] <= p[i] /\ p[i] <= hi[i] THEN 255 ELSE 0

\* cv2.bitwise_or of two mask values (each 0 or 255).
BitwiseOr(a, b) == IF a = 255 \/ b = 255 THEN 255 ELSE 0

\* Mutant of RedThreshold: the high (wrap-around) band is left out.
RedThreshold_lowBandOnly(p) == InRange(p, R1_L, R1_H)

RedThreshold(p) == BitwiseOr(InRange(p, R1_L, R1_H), InRange(p, R2_L, R2_H))

\* Mutant of GreenThreshold: the second band is thresholded with the red
\* band's constants.
GreenThreshold_redBand(p) ==
  BitwiseOr(InRange(p, G1_L, G1_H), InRange(p, R2_L, R2_H))

GreenThreshold(p) == BitwiseOr(InRange(p, G1_L, G1_H), InRange(p, G2_L, G2_H))

BlueThreshold(p) == InRange(p, B_L, B_H)

\* The first branch of color_mask, at one pixel.
Threshold(p, color) ==
  IF color = "red" THEN RedThreshold(p)
  ELSE IF color = "green" THEN GreenThreshold(p)
  ELSE BlueThreshold(p)

\* Kernel sizes of the opening and of the closing: np.ones((k,k)).
OPEN_K  == 5
CLOSE_K == 7

Abs(x) == IF x < 0 THEN -x ELSE x

\* The pixels of the image under a k x k kernel anchored at its centre on p.
\* Pixels outside the image do not count (OpenCV's default border value for
\* morphology is neutral: +inf for erosion, -inf for dilation).
Window(D, p, k) ==
  {q \in D : Abs(q[1] - p[1]) <= (k - 1) \div 2 /\ Abs(q[2] - p[2]) <= (k - 1) \div 2}

\* An array computed once, element by element (TLC would otherwise evaluate
\* an element of a function afresh at every read; the comparison tabulates it).
Array(f) == IF f = f THEN f ELSE f

Erode(m, k) ==
  Array([p \in DOMAIN m |->
           IF \A q \in Window(DOMAIN m, p, k) : m[q] = 255 THEN 255 ELSE 0])

Dilate(m, k) ==
  Array([p \in DOMAIN m |->
           IF \E q \in Window(DOMAIN m, p, k) : m[q] = 255 THEN 255 ELSE 0])

\* cv2.morphologyEx(m, MORPH_OPEN, ones(k,k), iterations=1)
MorphOpen(m, k) == Dilate(Erode(m, k), k)

\* cv2.morphologyEx(m, MORPH_CLOSE, ones(k,k), iterations=1)
MorphClose(m, k) == Erode(Dilate(m, k), k)

\* floor(log2 n) for n >= 1.
RECURSIVE FloorLog2(_)
FloorLog2(n) == IF n < 2 THEN 0 ELSE 1 + FloorLog2(n \div 2)

RECURSIVE Pow2(_)
Pow2(e) == IF e = 0 THEN 1 ELSE 2 * Pow2(e - 1)

\* int(n * 0.001) in binary64.  The double 0.001 is slightly above 1/1000, so
\* the rounded product is never below an integer that n/1000 reaches, and the
\* truncation is floor(n / 1000).
IntMul0001(n) == n \div 1000

\* int(n * 0.7) in binary64.  The double 0.7 is 0.7 - 0.4 * 2^-53.  When 7n/10
\* is not an integer the product is far from an integer and truncates to
\* floor(7n/10).  When K = 7n/10 is an integer, the exact product is
\* K - (4K/7) * 2^-53, which rounds to K when that deficit is at most half a
\* unit in the last place of the doubles below K (2^(e-53), e = floor(log2 K);
\* a tie goes to the even mantissa, K) and to the double below K otherwise:
\* then the truncation is K - 1.
IntMul07(n) ==
  LET K == (7 * n) \div 10
  IN  IF (7 * n) % 10 = 0 /\ K > 0 /\ 4 * K > 7 * Pow2(FloorLog2(K))
      THEN K - 1
      ELSE K

\* Mutant of min_area: the lower bound is rounded up.
min_area_ceil(h, w) == (h * w + 999) \div 1000

min_area(h, w) == IntMul0001(h * w)
max_area(h, w) == IntMul07(h * w)

\* The test of the area-filter loop: min_area <= a <= max_area.
KeepComponent(h, w, a) == min_area(h, w) <= a /\ a <= max_area(h, w)

\* 8-connectivity.
Adj8(p, q) == p # q /\ Abs(p[1] - q[1]) <= 1 /\ Abs(p[2] - q[2]) <= 1

\* The pixels of F connected to S.
RECURSIVE Reach(_, _)
Reach(S, F) ==
  LET N == {q \in F \ S : \E p \in S : Adj8(p, q)}
  IN  IF N = {} THEN S ELSE Reach(S \cup N, F)

\* The components of the pixel set F, one at a time.
RECURSIVE ComponentsOf(_)
ComponentsOf(F) ==
  IF F = {} THEN {}
  ELSE LET C == Reach({CHOOSE p \in F : TRUE}, F)
       IN  {C} \cup ComponentsOf(F \ C)

\* cv2.connectedComponentsWithStats(m, 8): the components of the nonzero
\* pixels (the background label 0 left out).
Components(m) == ComponentsOf({p \in DOMAIN m : m[p] # 0})

\* The area filter: out is 255 on the components that pass, 0 elsewhere.
AreaFilter(m, h, w) ==
  LET keep == UNION {C \in Components(m) : KeepComponent(h, w, Cardinality(C))}
  IN  Array([p \in DOMAIN m |-> IF p \in keep THEN 255 ELSE 0])

\* The first stage of color_mask: inRange / bitwise_or over the image.
ThresholdMask(im, color) ==
  Array([p \in DOMAIN im.px |-> Threshold(im.px[p], color)])

\* The stages of color_mask after the opening: closing, then the area filter.
CloseAndFilter(opened, h, w) == AreaFilter(MorphClose(opened, CLOSE_K), h, w)

\* color_mask(hsv, color)
color_mask(im, color) ==
  CloseAndFilter(MorphOpen(ThresholdMask(im, color), OPEN_K), im.h, im.w)

---------------------------------------------------------------------------
(* Label image: auto_label_shapes.label_image *)

\* lab[mask > 0] = code
Assign(l, mask, code) == [p \in DOMAIN l |-> IF mask[p] > 0 THEN code ELSE l[p]]

\* Mutant of Composite: the three writes in the opposite order.
Composite_reversed(mr, mg, mb) ==
  Assign(Assign(Assign([p \in DOMAIN mr |-> 0], mb, LABELS.blue),
                mg, LABELS.green),
         mr, LABELS.red)

\* lab = zeros; lab[mask_r > 0] = 1; lab[mask_g > 0] = 2; lab[mask_b > 0] = 3
Composite(mr, mg, mb) ==
  Assign(Assign(Assign([p \in DOMAIN mr |-> 0], mr, LABELS.red),
                mg, LABELS.green),
         mb, LABELS.blue)

---------------------------------------------------------------------------
(* One pixel through the threshold stage *)

\* Hue, saturation and value ranges of the hsv array (the header comment of
\* the thresholds: H in [0..180], S,V in [0..255]).
HueMax == 180

\* Saturations and values next to every bound of the threshold table.
SVSamples == {0, 59, 60, 69, 70, 79, 80, 81, 128, 254, 255}

InitPixel ==
  /\ ppc = "init"
  /\ px \in (0..HueMax) \X SVSamples \X SVSamples
  /\ thr = [c \in Colors |-> 0]
  /\ BatchIdle /\ AreaIdle /\ CompIdle /\ LabelIdle /\ SplitIdle

ThresholdPixel ==
  /\ ppc = "init"
  /\ thr' = [c \in Colors |-> Threshold(px, c)]
  /\ ppc' = "done"
  /\ UNCHANGED <<px, batchVars, areaVars, compVars, labelVars, splitVars>>

SpecPixel == InitPixel /\ [][ThresholdPixel]_vars

---------------------------------------------------------------------------
(* The area filter on one component *)

MaxSide == 45
MaxArea == 64

InitArea ==
  /\ apc = "init"
  /\ ah \in 1..MaxSide
  /\ aw \in 1..MaxSide
  /\ area \in 1..MaxArea
  /\ area <= ah * aw
  /\ kept = FALSE
  /\ BatchIdle /\ PixelIdle /\ CompIdle /\ LabelIdle /\ SplitIdle

FilterComponent ==
  /\ apc = "init"
  /\ kept' = KeepComponent(ah, aw, area)
  /\ apc' = "done"
  /\ UNCHANGED <<ah, aw, area, batchVars, pixelVars, compVars, labelVars, splitVars>>

SpecArea == InitArea /\ [][FilterComponent]_vars

---------------------------------------------------------------------------
(* The compositing lines on three masks *)

GridW == 3

Grid(h, w) == (1..h) \X (1..w)

BinaryMasks(D) == [D -> {0, 255}]

InitComp ==
  /\ cpc = "init"
  /\ cmasks \in [Colors -> BinaryMasks(Grid(1, GridW))]
  /\ clab = <<>>
  /\ BatchIdle /\ PixelIdle /\ AreaIdle /\ LabelIdle /\ SplitIdle

CompositeMasks ==
  /\ cpc = "init"
  /\ clab' = Composite(cmasks.red, cmasks.green, cmasks.blue)
  /\ cpc' = "done"
  /\ UNCHANGED <<cmasks, batchVars, pixelVars, areaVars, labelVars, splitVars>>

SpecComposite == InitComp /\ [][CompositeMasks]_vars

---------------------------------------------------------------------------
(* label_image on one image *)

\* Pixel values of the test images: saturated red (high band), green, blue,
\* and an unsaturated background.
Palette == << <<175, 200, 200>>, <<60, 200, 200>>, <<110, 200, 200>>, <<20, 30, 200>> >>

\* Test images are made of vertical stripes: a list of runs <<colour, width>>.
MaxRuns == 3
RunLens == {1, 3, 5}
Heights == {1}

RECURSIVE RunPixels(_)
RunPixels(runs) ==
  IF runs = <<>> THEN <<>>
  ELSE [i \in 1..Head(runs)[2] |-> Palette[Head(runs)[1]]] \o RunPixels(Tail(runs))

ImageOf(h, runs) ==
  LET row == RunPixels(runs)
  IN  [h |-> h, w |-> Len(row), px |-> [p \in Grid(h, Len(row)) |-> row[p[2]]]]

InitLabel ==
  /\ lpc = "init"
  /\ \E k \in 1..MaxRuns, h \in Heights :
       \E runs \in [1..k -> (1..Len(Palette)) \X RunLens] :
         hsv = ImageOf(h, runs)
  /\ thrMasks = NoMasks /\ openMasks = NoMasks /\ masks = NoMasks /\ lab = <<>>
  /\ BatchIdle /\ PixelIdle /\ AreaIdle /\ CompIdle /\ SplitIdle

\* label_image(img) from the hsv array on: color_mask for the three colours,
\* stage by stage (masks'[c] is color_mask(hsv, c); its intermediate arrays
\* are kept in thrMasks and openMasks), then the compositing.
LabelImage ==
  /\ lpc = "init"
  /\ thrMasks' = [c \in Colors |-> ThresholdMask(hsv, c)]
  /\ openMasks' = [c \in Colors |-> MorphOpen(thrMasks'[c], OPEN_K)]
  /\ masks' = [c \in Colors |-> CloseAndFilter(openMasks'[c], hsv.h, hsv.w)]
  /\ lab' = Composite(masks'.red, masks'.green, masks'.blue)
  /\ lpc' = "done"
  /\ UNCHANGED <<hsv, batchVars, pixelVars, areaVars, compVars, splitVars>>

SpecLabel == InitLabel /\ [][LabelImage]_vars

---------------------------------------------------------------------------
(* Pairing of images and masks: split_dataset.main *)

\* str.replace(pat, ""): every non-overlapping occurrence of pat, found from
\* left to right, is removed.
RECURSIVE Remove(_, _)
Remove(s, pat) ==
  IF Len(s) < Len(pat) THEN s
  ELSE IF StartsWith(s, pat) THEN Remove(SubSeq(s, Len(pat) + 1, Len(s)), pat)
  ELSE <<Head(s)>> \o Remove(Tail(s), pat)

\* p.stem.replace("_shape", "")
StripShape(stem) == Remove(stem, <<"_","s","h","a","p","e">>)

\* img.stem.replace("_gray", "")
StripGray(stem) == Remove(stem, <<"_","g","r","a","y">>)

\* pathlib's Path.stem: the name without its last suffix (a dot that is
\* neither the first nor the last character starts the suffix).
PathStem(name) ==
  LET d == LastDot(name)
  IN  IF d > 1 /\ d < Len(name) THEN SubSeq(name, 1, d - 1) ELSE name

\* Path(dir).glob("*" + ext) over a set of file names.
Glob(names, ext) == {n \in names : EndsWith(n, ext)}

\* {key(p): p for p in masks}: a later mask replaces an earlier one of the
\* same stem.
RECURSIVE DictOf(_, _)
DictOf(ms, d) ==
  IF ms = <<>> THEN d
  ELSE LET k == StripShape(PathStem(Head(ms)))
       IN  DictOf(Tail(ms),
                  [x \in DOMAIN d \cup {k} |-> IF x = k THEN Head(ms) ELSE d[x]])

\* Base names of test inputs: one to MaxPieces pieces, each a letter or one
\* of the two suffix texts.
Pieces == { <<"a">>, <<"_","g","r","a","y">>, <<"_","s","h","a","p","e">> }

MaxPieces == 2
MaxBases == 2

RECURSIVE Concat(_)
Concat(ss) == IF ss = <<>> THEN <<>> ELSE Head(ss) \o Concat(Tail(ss))

BaseNames == UNION { {Concat(ps) : ps \in [1..k -> Pieces]} : k \in 1..MaxPieces }

\* The subsets of S of at most k elements.
RECURSIVE SubsetsUpTo(_, _)
SubsetsUpTo(S, k) ==
  IF k = 0 THEN {{}}
  ELSE LET T == SubsetsUpTo(S, k - 1)
       IN  T \cup {B \cup {x} : B \in T, x \in S}

\* The directories the labelling run leaves for the inputs it labelled.
GrayDir(B) == {GrayName(b) : b \in B}
MaskDir(B) == {MaskName(b) : b \in B}

\* --val and --test default to 0.15.
DefaultRatio == <<3, 20>>

\* `splits` before line 43 assigns it.
NoSplits == [train |-> <<>>, val |-> <<>>, test |-> <<>>]

InitSplit ==
  /\ spc = "start"
  /\ bases \in SubsetsUpTo(BaseNames, MaxBases) \ {{}}
  /\ images = <<>> /\ smasks = <<>> /\ mask_by_stem = <<>>
  /\ todo = <<>> /\ pairs = <<>>
  /\ args = [val |-> DefaultRatio, test |-> DefaultRatio]
  /\ splits = NoSplits
  /\ BatchIdle /\ PixelIdle /\ AreaIdle /\ CompIdle /\ LabelIdle

\* images = sorted(glob *.png); masks = sorted(glob *.png + *.jpg + *.jpeg);
\* mask_by_stem = {...}; pairs = []
GlobFiles ==
  /\ spc = "start"
  /\ images' = SortedOf(Glob(GrayDir(bases), <<".","p","n","g">>))
  /\ smasks' = SortedOf(Glob(MaskDir(bases), <<".","p","n","g">>)
                          \cup Glob(MaskDir(bases), <<".","j","p","g">>)
                          \cup Glob(MaskDir(bases), <<".","j","p","e","g">>))
  /\ mask_by_stem' = DictOf(smasks', <<>>)
  /\ todo' = images'
  /\ pairs' = <<>>
  /\ spc' = "pairing"
  /\ UNCHANGED <<bases, args, splits,
                 batchVars, pixelVars, areaVars, compVars, labelVars>>

\* One iteration of  for img in images.
PairImage ==
  /\ spc = "pairing"
  /\ todo # <<>>
  /\ LET img  == Head(todo)
         stem == StripGray(PathStem(img))
     IN  pairs' = IF stem \in DOMAIN mask_by_stem
                  THEN Append(pairs, <<img, mask_by_stem[stem]>>)
                  ELSE pairs
  /\ todo' = Tail(todo)
  /\ UNCHANGED <<spc, bases, images, smasks, mask_by_stem, args, splits,
                 batchVars, pixelVars, areaVars, compVars, labelVars>>

\* After the loop: SystemExit when no pair was found.
EndPairing ==
  /\ spc = "pairing"
  /\ todo = <<>>
  /\ spc' = IF pairs = <<>> THEN "exit" ELSE "paired"
  /\ UNCHANGED <<bases, images, smasks, mask_by_stem, todo, pairs, args, splits,
                 batchVars, pixelVars, areaVars, compVars, labelVars>>

NextSplit == GlobFiles \/ PairImage \/ EndPairing

SpecSplit == InitSplit /\ [][NextSplit]_vars

\* The shuffle and the three slices.  A ratio is <<numerator, denominator>>;
\* the ratios drawn are the default 0.15 and dyadic fractions, for which the
\* float product ratio*n truncates to the integer quotient for every n the
\* model reaches.
Ratios == { <<0, 1>>, <<1, 8>>, DefaultRatio, <<1, 4>>, <<1, 2>>, <<3, 4>>, <<1, 1>> }

\* int(ratio * n)
IntOfProduct(ratio, n) == (ratio[1] * n) \div ratio[2]

\* The position a slice bound k denotes in a list of length n: a negative
\* bound counts from the end, and every bound is clamped to 0..n.
SliceIndex(k, n) ==
  IF k < 0 THEN (IF n + k < 0 THEN 0 ELSE n + k)
  ELSE IF k > n THEN n ELSE k

\* s[i:j]
Slice(s, i, j) ==
  LET a == SliceIndex(i, Len(s))
      b == SliceIndex(j, Len(s))
  IN  IF a < b THEN SubSeq(s, a + 1, b) ELSE <<>>

\* splits = {"train": pairs[:n-n_val-n_test],
\*           "val":   pairs[n-n_val-n_test:n-n_test],
\*           "test":  pairs[n-n_test:]}
SplitsOf(ps, n_val, n_test) ==
  LET n == Len(ps)
  IN  [train |-> Slice(ps, 0, n - n_val - n_test),
       val   |-> Slice(ps, n - n_val - n_test, n - n_test),
       test  |-> Slice(ps, n - n_test, n)]

\* Inputs of the split: MaxPairs or fewer labelled inputs named a, aa, ...
MaxPairs == 4

RECURSIVE Repeat(_, _)
Repeat(c, k) == IF k = 0 THEN <<>> ELSE <<c>> \o Repeat(c, k - 1)

InitPartition ==
  /\ spc = "start"
  /\ \E k \in 1..MaxPairs : bases = {Repeat("a", i) : i \in 1..k}
  /\ images = <<>> /\ smasks = <<>> /\ mask_by_stem = <<>>
  /\ todo = <<>> /\ pairs = <<>>
  /\ args \in [val : Ratios, test : Ratios]
  /\ splits = NoSplits
  /\ BatchIdle /\ PixelIdle /\ AreaIdle /\ CompIdle /\ LabelIdle

\* random.seed(args.seed); random.shuffle(pairs): the list is permuted in
\* place, by the permutation the seed selects.
ShufflePairs ==
  /\ spc = "paired"
  /\ \E perm \in Perms(1..Len(pairs)) :
        pairs' = [i \in 1..Len(pairs) |-> pairs[perm[i]]]
  /\ spc' = "shuffled"
  /\ UNCHANGED <<bases, images, smasks, mask_by_stem, todo, args, splits,
                 batchVars, pixelVars, areaVars, compVars, labelVars>>

\* n = len(pairs); n_val = int(args.val*n); n_test = int(args.test*n);
\* splits = {...}
SplitPairs ==
  /\ spc = "shuffled"
  /\ splits' = SplitsOf(pairs, IntOfProduct(args.val, Len(pairs)),
                               IntOfProduct(args.test, Len(pairs)))
  /\ spc' = "split"
  /\ UNCHANGED <<bases, images, smasks, mask_by_stem, todo, pairs, args,
                 batchVars, pixelVars, areaVars, compVars, labelVars>>

NextPartition == GlobFiles \/ PairImage \/ EndPairing \/ ShufflePairs \/ SplitPairs

SpecPartition == InitPartition /\ [][NextPartition]_vars

\* C10 (as claimed): when the pairing loop has ended, the pairs are exactly
\* the grayscale file and the mask file of each labelled input, whatever the
\* base names.
C10_PairsMatch ==
  (spc \in {"paired", "exit"}) =>
    {pairs[i] : i \in 1..Len(pairs)} = {<<GrayName(b), MaskName(b)>> : b \in bases}

\* C11 (as claimed): for every number of pairs and every val and test ratio
\* in [0,1], also when int(val*n) + int(test*n) exceeds n, the train, val
\* and test subsets are pairwise disjoint, their union is the shuffled pair
\* list, val has int(val*n) items and test has int(test*n) items.
C11_Partition ==
  spc = "split" =>
    LET n == Len(pairs)
    IN  /\ Range(splits.train) \cap Range(splits.val) = {}
        /\ Range(splits.train) \cap Range(splits.test) = {}
        /\ Range(splits.val) \cap Range(splits.test) = {}
        /\ Range(splits.train) \cup Range(splits.val) \cup Range(splits.test)
             = Range(pairs)
        /\ Len(splits.val) = IntOfProduct(args.val, n)
        /\ Len(splits.test) = IntOfProduct(args.test, n)

---------------------------------------------------------------------------
(* Properties of the pixel pipeline *)

\* C4 (as claimed): an earlier colour is never overwritten: red wins over
\* green and blue, green wins over blue.
C4_EarlierColorWins ==
  cpc = "done" =>
    \A p \in DOMAIN clab :
      clab[p] = IF cmasks.red[p] > 0 THEN 1
                ELSE IF cmasks.green[p] > 0 THEN 2
                ELSE IF cmasks.blue[p] > 0 THEN 3
                ELSE 0

\* C4 (amended): the last write wins: at every pixel the label is 3 where
\* the blue mask is nonzero, else 2 where the green mask is nonzero, else 1
\* where the red mask is nonzero, else 0.  A pixel of both the red and the
\* green mask gets 2, one of both the green and the blue mask gets 3.
C4_LaterColorWins ==
  cpc = "done" =>
    /\ DOMAIN clab = DOMAIN cmasks.red
    /\ \A p \in DOMAIN clab :
         clab[p] = IF cmasks.blue[p] > 0 THEN 3
                   ELSE IF cmasks.green[p] > 0 THEN 2
                   ELSE IF cmasks.red[p] > 0 THEN 1
                   ELSE 0

\* Composited masks with a red/green overlap (not blue) at one pixel and a
\* green/blue overlap at another.
C4_Witness ==
  /\ cpc = "done"
  /\ \E p, q \in DOMAIN clab :
       /\ cmasks.red[p] > 0 /\ cmasks.green[p] > 0 /\ cmasks.blue[p] = 0
       /\ clab[p] = 2
       /\ cmasks.green[q] > 0 /\ cmasks.blue[q] > 0
       /\ clab[q] = 3

\* C7 (as claimed): a component is kept iff 0.001*H*W <= a <= 0.7*H*W, both
\* bounds inclusive and exact.
C7_ExactBounds ==
  apc = "done" =>
    (kept <=> (ah * aw <= 1000 * area /\ 10 * area <= 7 * ah * aw))

\* C7 (amended): the bounds are truncated to integers after a floating-point
\* product.  A component is kept only if floor(H*W/1000) <= a <= 0.7*H*W;
\* it is kept whenever floor(H*W/1000) <= a < 0.7*H*W; at a = 0.7*H*W
\* exactly the rounding of the product decides (kept for H*W = 10 and
\* a = 7, removed for H*W = 90 and a = 63).
C7_TruncatedBounds ==
  apc = "done" =>
    /\ kept => (ah * aw < 1000 * (area + 1) /\ 10 * area <= 7 * ah * aw)
    /\ (ah * aw < 1000 * (area + 1) /\ 10 * area < 7 * ah * aw) => kept
    /\ (ah * aw = 10 /\ area = 7) => kept
    /\ (ah * aw = 90 /\ area = 63) => ~kept

\* A component smaller than 0.1% of a frame of more than 1000 pixels that the
\* filter kept.
C7_Witness ==
  /\ apc = "done"
  /\ ah * aw > 1000
  /\ 1000 * area < ah * aw
  /\ kept

\* C8: for every saturation and value inside the red bands' bounds, hue 0
\* and hue 179 are accepted by the red threshold and hue 90 is not.
C8_RedWraparound ==
  (ppc = "done" /\ 80 <= px[2] /\ px[2] <= 255 /\ 70 <= px[3] /\ px[3] <= 255) =>
    /\ px[1] \in {0, 179} => thr.red = 255
    /\ px[1] = 90 => thr.red = 0

\* A thresholded pixel of hue 179 at the lowest accepted saturation and value.
C8_Witness ==
  /\ ppc = "done"
  /\ px = <<179, 80, 70>>
  /\ thr.red = 255

AtMostOne(ms, p) == Cardinality({c \in Colors : ms[c][p] # 0}) <= 1

\* C9 (as claimed): the three masks color_mask returns never overlap.
C9_MasksDisjoint ==
  lpc = "done" => \A p \in DOMAIN hsv.px : AtMostOne(masks, p)

\* C9 (amended): the three masks are disjoint after the hue thresholding and
\* after the opening; the closing can extend a mask over pixels of another,
\* so that the masks color_mask returns can overlap.
C9_DisjointBeforeClosing ==
  lpc = "done" =>
    \A p \in DOMAIN hsv.px : AtMostOne(thrMasks, p) /\ AtMostOne(openMasks, p)

\* An image two of whose returned masks overlap at a pixel, although their
\* opened masks are both non-empty and disjoint.
C9_Witness ==
  /\ lpc = "done"
  /\ \E p \in DOMAIN hsv.px :
       /\ masks.red[p] # 0 /\ masks.green[p] # 0
       /\ openMasks.red[p] = 0 /\ openMasks.green[p] # 0
       /\ lab[p] = 2

---------------------------------------------------------------------------
(* Properties of the batch run *)

\* The allow-listed names of the input directory, in processing order.
AllowedNames == {n \in Range(listing) : Allowed(n)}

OkCount == Cardinality({i \in 1..Len(report) : report[i].status = "ok"})

\* Sets of artifacts on disk: the (mask, overlay, grayscale) path triples all
\* three files of which exist.
ArtifactSets ==
  { <<mask_path(n), ov_path(n), gray_path(n)>> :
      n \in {m \in Range(listing) :
               \A k \in Kinds : \E f \in disk : f.path = PathOf(m, k)} }

\* What the steps of one iteration do to the report and to the disk, unless
\* an exception leaves main.
C1_Step ==
  /\ (pc = "loop" /\ queue # <<>> /\ pc' # "aborted") =>
       IF ~Allowed(Head(queue))
       THEN pc' = "loop" /\ queue' = Tail(queue) /\ report' = report /\ disk' = disk
       ELSE IF Head(queue) \notin decodable
       THEN /\ pc' = "loop"
            /\ queue' = Tail(queue)
            /\ report' = Append(report, [path |-> Head(queue), status |-> "read_fail"])
            /\ disk' = disk
            /\ persisted' = persisted
       ELSE pc' = "mask" /\ queue' = queue /\ report' = report /\ disk' = disk
  /\ (pc \in {"mask", "overlay", "gray"} /\ pc' # "aborted") =>
       /\ pc' = (CASE pc = "mask" -> "overlay" [] pc = "overlay" -> "gray"
                    [] pc = "gray" -> "append")
       /\ queue' = queue /\ report' = report
  /\ (pc = "append" /\ pc' # "aborted") =>
       /\ pc' = "loop"
       /\ queue' = Tail(queue)
       /\ Len(report') = Len(report) + 1
       /\ SubSeq(report', 1, Len(report)) = report
       /\ report'[Len(report')].path = Head(queue)
       /\ report'[Len(report')].status = "ok"

\* C1: a file that fails to decode gets a read_fail entry and no artifact,
\* and the loop goes on.  Unless an exception leaves main, every step of the
\* loop stays in the loop; the step that meets an allow-listed file that
\* does not decode appends its read_fail entry, writes nothing and moves to
\* the next name in sorted order; a file that decodes goes through its three
\* writes and gets its own entry, whatever happened to the files before it.
C1_ReadFailIsolated == [][C1_Step]_vars

\* A completed run in which a file failed to decode and a later file was
\* labelled and written.
C1_Witness ==
  /\ pc = "done"
  /\ \E i, j \in 1..Len(report) :
       /\ i < j
       /\ report[i].status = "read_fail"
       /\ report[j].status = "ok"
       /\ \E f \in disk : f.src = report[j].path

\* C2: the report entries are in strict lexicographic (code point) order of
\* file name at every moment, and a completed run reports exactly the
\* allow-listed names: since a strictly ordered list of a given set is
\* unique, the order of the report does not depend on the listing order.
C2_ReportSorted ==
  /\ \A i, j \in 1..Len(report) : i < j => StrLess(report[i].path, report[j].path)
  /\ pc = "done" => {report[i].path : i \in 1..Len(report)} = AllowedNames

\* A completed run with two or more entries whose directory listing came out
\* of order.
C2_Witness ==
  /\ pc = "done"
  /\ Len(report) >= 2
  /\ \E i, j \in 1..Len(listing) : i < j /\ StrLess(listing[j], listing[i])

\* C3 (as claimed): when the run completes (no imwrite having failed), the
\* report holds exactly one entry per allow-listed file, each ok or
\* read_fail, and the number of artifact sets on disk equals the number of
\* ok entries.
C3_Census ==
  (pc = "done" /\ failed = {}) =>
    /\ Len(report) = Cardinality(AllowedNames)
    /\ \A n \in AllowedNames :
         Cardinality({i \in 1..Len(report) : report[i].path = n}) = 1
    /\ \A i \in 1..Len(report) : report[i].status \in {"ok", "read_fail"}
    /\ Cardinality(ArtifactSets) = OkCount

\* C5 (as claimed): a write failure aborts the run, and no ok entry is
\* recorded for a file one of whose artifacts was not persisted.
C5_WriteFailureFatal ==
  /\ failed # {} => pc = "aborted"
  /\ \A i \in 1..Len(report) :
       report[i].status = "ok" =>
         \A k \in Kinds : <<report[i].path, k>> \in persisted

\* C6: report.json is opened for writing at most once, and only after the
\* loop has visited every name and every allow-listed file has its entry;
\* until then, and in a run that aborts before the loop ends, the file is
\* what it was before the run; a completed run has written it exactly once
\* and the file then holds the full report.
C6_ReportOnce ==
  /\ reportWrites \in {0, 1}
  /\ reportWrites = 0 => reportFile = priorReport
  /\ pc \in {"start", "dirs"} \cup LoopPcs => reportWrites = 0
  /\ (pc = "aborted" /\ queue # <<>>) => reportWrites = 0
  /\ reportWrites = 1 =>
       /\ queue = <<>>
       /\ {report[i].path : i \in 1..Len(report)} = AllowedNames
  /\ pc = "done" =>
       /\ reportWrites = 1
       /\ reportFile = FullReport(report)

\* A completed run that replaced an earlier report by a report of two or
\* more entries.
C6_Witness ==
  /\ pc = "done"
  /\ priorReport.exists
  /\ Len(report) >= 2
  /\ reportFile = FullReport(report)
  /\ reportFile # priorReport

===========================================================================
